---- MODULE Spec2Model ----
(***************************************************************************)
(* Model of the Twitch chat -> OpenAI -> ElevenLabs bridge (src/App.py).   *)
(*                                                                         *)
(* Text is a sequence of one-character strings, so that the regular        *)
(* expressions, str.strip, slicing and int() of the source are computed    *)
(* character by character.  Every event_message invocation is a task of    *)
(* the asyncio event loop: the loop runs one task at a time, a task gives  *)
(* the loop back only where an await really suspends (the OpenAI request   *)
(* and the run_in_executor call), and the synchronous play(audio) keeps    *)
(* the loop for as long as the audio plays.                                *)
(***************************************************************************)
EXTENDS Integers, Sequences, FiniteSets, TLC

\* ------------------------------------------------------------ bounds
\* number of chat messages delivered to event_message in one run
NTasks == 2
\* the clock (time.time(), in seconds) when the bot starts
Epoch == 100
\* the clock stops advancing after Epoch + MaxElapsed seconds
MaxElapsed == 16

\* ------------------------------------------------------------ characters
Digits == {"0", "1", "2", "3", "4", "5", "6", "7", "8", "9"}

DigitSeq == <<"0", "1", "2", "3", "4", "5", "6", "7", "8", "9">>

\* whitespace as matched by \s and removed by str.strip()
Whitespace == {" ", "\t", "\n"}

UpperToLower ==
  [A |-> "a", B |-> "b", C |-> "c", D |-> "d", E |-> "e", F |-> "f",
   G |-> "g", H |-> "h", I |-> "i", J |-> "j", K |-> "k", L |-> "l",
   M |-> "m", N |-> "n", O |-> "o", P |-> "p", Q |-> "q", R |-> "r",
   S |-> "s", T |-> "t", U |-> "u", V |-> "v", W |-> "w", X |-> "x",
   Y |-> "y", Z |-> "z"]

\* re.IGNORECASE compares characters by their case-folded form
Lower(c) == IF c \in DOMAIN UpperToLower THEN UpperToLower[c] ELSE c

IsDigit(c) == c \in Digits

IsSpace(c) == c \in Whitespace

DigitVal(c) == (CHOOSE i \in 1..10 : DigitSeq[i] = c) - 1

\* ------------------------------------------------------------ str helpers
\* text[i:] (1-based i)
Drop(text, i) == SubSeq(text, i, Len(text))

\* text[:n]
Take(text, n) == SubSeq(text, 1, IF n < Len(text) THEN n ELSE Len(text))

\* length of the run of digits of text that starts at position i (\d+, greedy)
RECURSIVE DigitRun(_, _)
DigitRun(text, i) ==
  IF i <= Len(text) /\ IsDigit(text[i]) THEN 1 + DigitRun(text, i + 1) ELSE 0

\* length of the run of whitespace of text that starts at position i (\s+)
RECURSIVE SpaceRun(_, _)
SpaceRun(text, i) ==
  IF i <= Len(text) /\ IsSpace(text[i]) THEN 1 + SpaceRun(text, i + 1) ELSE 0

\* the literal p occurs in text at position i, compared case-insensitively
LiteralAt(text, i, p) ==
  /\ i + Len(p) - 1 <= Len(text)
  /\ \A k \in 1..Len(p) : Lower(text[i + k - 1]) = Lower(p[k])

\* str.strip()
RECURSIVE lstrip(_)
lstrip(text) ==
  IF text # <<>> /\ IsSpace(Head(text)) THEN lstrip(Tail(text)) ELSE text

RECURSIVE rstrip(_)
rstrip(text) ==
  IF text # <<>> /\ IsSpace(text[Len(text)])
  THEN rstrip(SubSeq(text, 1, Len(text) - 1)) ELSE text

strip(text) == rstrip(lstrip(text))

\* the value of a string of decimal digits
RECURSIVE DigitsValue(_)
DigitsValue(ds) ==
  IF ds = <<>> THEN 0
  ELSE 10 * DigitsValue(SubSeq(ds, 1, Len(ds) - 1)) + DigitVal(ds[Len(ds)])

\* int(s): surrounding whitespace and one sign are accepted, anything else
\* than a non-empty run of digits raises ValueError
int(s) ==
  LET t == strip(s)
      signed == t # <<>> /\ Head(t) \in {"+", "-"}
      ds == IF signed THEN Tail(t) ELSE t
  IN IF ds # <<>> /\ DigitRun(ds, 1) = Len(ds)
     THEN [ok |-> TRUE,
           value |-> IF signed /\ Head(t) = "-" THEN 0 - DigitsValue(ds)
                     ELSE DigitsValue(ds)]
     ELSE [ok |-> FALSE, value |-> 0]

\* '*' * n
RECURSIVE Stars(_)
Stars(n) == IF n <= 0 THEN <<>> ELSE <<"*">> \o Stars(n - 1)

\* ------------------------------------------------------------ CHEER_PATTERN
\* the alternatives of CHEER_PATTERN in the order of the source; plus tells
\* whether the prefix is followed by \d+ (TRUE) or by a single \d (FALSE)
CHEER_PATTERN ==
  << [prefix |-> <<"B","i","b","l","e","T","h","u","m","p">>, plus |-> TRUE],
     [prefix |-> <<"c","h","e","e","r","w","h","a","l">>, plus |-> TRUE],
     [prefix |-> <<"C","o","r","g","o">>, plus |-> TRUE],
     [prefix |-> <<"u","n","i">>, plus |-> TRUE],
     [prefix |-> <<"S","h","o","w","L","o","v","e">>, plus |-> TRUE],
     [prefix |-> <<"P","a","r","t","y">>, plus |-> TRUE],
     [prefix |-> <<"S","e","e","m","s","G","o","o","d">>, plus |-> TRUE],
     [prefix |-> <<"P","r","i","d","e">>, plus |-> TRUE],
     [prefix |-> <<"K","a","p","p","a">>, plus |-> TRUE],
     [prefix |-> <<"c","h","e","e","r">>, plus |-> TRUE],
     [prefix |-> <<"F","r","a","n","k","e","r","Z">>, plus |-> TRUE],
     [prefix |-> <<"H","e","y","G","u","y","s">>, plus |-> TRUE],
     [prefix |-> <<"D","a","n","s","G","a","m","e">>, plus |-> TRUE],
     [prefix |-> <<"E","l","e","G","i","g","g","l","e">>, plus |-> TRUE],
     [prefix |-> <<"T","r","i","H","a","r","d">>, plus |-> TRUE],
     [prefix |-> <<"K","r","e","y","g","a","s","m">>, plus |-> TRUE],
     [prefix |-> <<"4","H","e","a","d">>, plus |-> TRUE],
     [prefix |-> <<"S","w","i","f","t","R","a","g","e">>, plus |-> TRUE],
     [prefix |-> <<"N","o","t","L","i","k","e","T","h","i","s">>, plus |-> TRUE],
     [prefix |-> <<"F","a","i","l","F","i","s","h">>, plus |-> TRUE],
     [prefix |-> <<"V","o","H","i","Y","o">>, plus |-> TRUE],
     [prefix |-> <<"P","J","S","a","l","t">>, plus |-> TRUE],
     [prefix |-> <<"M","r","D","e","s","t","r","u","c","t","o","i","d">>, plus |-> TRUE],
     [prefix |-> <<"b","d","a","y">>, plus |-> TRUE],
     [prefix |-> <<"R","I","P","C","h","e","e","r">>, plus |-> TRUE],
     [prefix |-> <<"S","h","a","m","r","o","c","k">>, plus |-> FALSE] >>

\* length of the match of one alternative at position i of text, 0 if none
AlternativeAt(text, i, alt) ==
  LET run == DigitRun(text, i + Len(alt.prefix))
  IN IF LiteralAt(text, i, alt.prefix) /\ run >= 1
     THEN Len(alt.prefix) + (IF alt.plus THEN run ELSE 1)
     ELSE 0

\* length of the match of CHEER_PATTERN at position i: the first alternative
\* that matches there decides, 0 if none does
CheerMatchAt(text, i) ==
  LET hits == {k \in 1..Len(CHEER_PATTERN) :
                 AlternativeAt(text, i, CHEER_PATTERN[k]) > 0}
  IN IF hits = {} THEN 0
     ELSE AlternativeAt(text, i,
            CHEER_PATTERN[CHOOSE k \in hits : \A j \in hits : k <= j])

\* CHEER_PATTERN.findall(text): the matches, left to right, non-overlapping
RECURSIVE findall_from(_, _)
findall_from(text, i) ==
  IF i > Len(text) THEN <<>>
  ELSE LET n == CheerMatchAt(text, i)
       IN IF n > 0
          THEN <<SubSeq(text, i, i + n - 1)>> \o findall_from(text, i + n)
          ELSE findall_from(text, i + 1)

CHEER_PATTERN_findall(text) == findall_from(text, 1)

\* CHEER_PATTERN.sub('', text)
RECURSIVE cheer_sub_from(_, _)
cheer_sub_from(text, i) ==
  IF i > Len(text) THEN <<>>
  ELSE LET n == CheerMatchAt(text, i)
       IN IF n > 0 THEN cheer_sub_from(text, i + n)
          ELSE <<text[i]>> \o cheer_sub_from(text, i + 1)

CHEER_PATTERN_sub(text) == cheer_sub_from(text, 1)

\* int(re.search(r'\d+', match).group()): the first run of digits of a match
RECURSIVE first_digits(_)
first_digits(match) ==
  IF match = <<>> THEN <<>>
  ELSE IF IsDigit(Head(match)) THEN SubSeq(match, 1, DigitRun(match, 1))
  ELSE first_digits(Tail(match))

match_bits(match) == DigitsValue(first_digits(match))

RECURSIVE sum_bits(_)
sum_bits(matches) ==
  IF matches = <<>> THEN 0
  ELSE match_bits(Head(matches)) + sum_bits(Tail(matches))

\* lines 283-295 of event_message: the bits cheered in a message
extract_cheered_bits(content) == sum_bits(CHEER_PATTERN_findall(content))

\* lines 284-295 of event_message: the content without its cheers; it is
\* stripped only when a cheer was found
extract_processed_content(content) ==
  IF CHEER_PATTERN_findall(content) # <<>>
  THEN strip(CHEER_PATTERN_sub(content))
  ELSE content

\* ------------------------------------------------------------ filter_message
\* the length filter_message truncates to
MAX_FILTERED_LEN == 130

\* re.sub(r'cheer\d+\s+', '', text, flags=re.I): "cheer", its run of digits and
\* the run of whitespace after it are removed; without whitespace after the
\* digits there is no match
RECURSIVE cheer_prefix_sub_from(_, _)
cheer_prefix_sub_from(text, i) ==
  LET matches ==
        {k \in i..Len(text) :
           /\ LiteralAt(text, k, <<"c","h","e","e","r">>)
           /\ DigitRun(text, k + 5) >= 1
           /\ SpaceRun(text, k + 5 + DigitRun(text, k + 5)) >= 1}
  IN IF matches = {} THEN Drop(text, i)
     ELSE LET k == CHOOSE k \in matches : \A j \in matches : k <= j
              digits == DigitRun(text, k + 5)
              spaces == SpaceRun(text, k + 5 + digits)
          IN SubSeq(text, i, k - 1)
               \o cheer_prefix_sub_from(text, k + 5 + digits + spaces)

remove_cheer_prefixes(text) == cheer_prefix_sub_from(text, 1)

\* re.compile(re.escape(word), re.IGNORECASE).sub('*' * len(word), text): the
\* occurrences of word, left to right and non-overlapping; the empty word
\* matches everywhere and is replaced by the empty string
RECURSIVE mask_word_from(_, _, _)
mask_word_from(text, word, i) ==
  LET matches ==
        IF word = <<>> THEN {}
        ELSE {k \in i..Len(text) : LiteralAt(text, k, word)}
  IN IF matches = {} THEN Drop(text, i)
     ELSE LET k == CHOOSE k \in matches : \A j \in matches : k <= j
          IN SubSeq(text, i, k - 1) \o Stars(Len(word))
               \o mask_word_from(text, word, k + Len(word))

mask_word(text, word) == mask_word_from(text, word, 1)

\* for word in banned_words: text = pattern.sub(...)
RECURSIVE mask_words(_, _)
mask_words(text, banned_words) ==
  IF banned_words = <<>> THEN text
  ELSE mask_words(mask_word(text, Head(banned_words)), Tail(banned_words))

\* the truncation done first, the masking last
filter_message_truncate_first(text, banned_words) ==
  mask_words(remove_cheer_prefixes(Take(text, MAX_FILTERED_LEN)), banned_words)

\* lines 206-212
filter_message(text, banned_words) ==
  Take(mask_words(remove_cheer_prefixes(text), banned_words), MAX_FILTERED_LEN)

\* ------------------------------------------------------------ configuration
\* a variable of the environment (.env): set or not, and its text
Unset == [set |-> FALSE, text |-> <<>>]

EnvVar(text) == [set |-> TRUE, text |-> text]

\* os.getenv(key, default)
getenv(env, key, default) == IF env[key].set THEN env[key].text ELSE default

DEFAULT_BIT_THRESHOLD == 20

DEFAULT_TIMEOUT_DURATION == 15

\* str.split(','): the pieces between the commas
RECURSIVE split_comma(_)
split_comma(text) ==
  IF \A i \in 1..Len(text) : text[i] # "," THEN <<text>>
  ELSE LET c == CHOOSE i \in 1..Len(text) :
                  text[i] = "," /\ \A j \in 1..(i - 1) : text[j] # ","
       IN <<SubSeq(text, 1, c - 1)>> \o split_comma(Drop(text, c + 1))

\* [word.strip() for word in banned_words_str.split(',')] if banned_words_str else []
parse_banned_words(text) ==
  IF text = <<>> THEN <<>>
  ELSE LET parts == split_comma(text)
       IN [i \in 1..Len(parts) |-> strip(parts[i])]

load_configuration(env) ==
  LET bits == int(getenv(env, "BIT_THRESHOLD", <<"2","0">>))
      timeout == int(getenv(env, "TIMEOUT_DURATION", <<"1","5">>))
  IN [BIT_THRESHOLD |-> IF bits.ok THEN bits.value ELSE DEFAULT_BIT_THRESHOLD,
      TIMEOUT_DURATION |->
        IF timeout.ok THEN timeout.value ELSE DEFAULT_TIMEOUT_DURATION,
      CHAT_FLAG |->
        getenv(env, "CHAT_FLAG", <<"F","a","l","s","e">>) = <<"T","r","u","e">>,
      BANNED_WORDS |-> parse_banned_words(getenv(env, "BANNED_WORDS", <<>>))]

\* ------------------------------------------------------------ prompt, replies
SENTINEL_PROMPT == "TELL EVERYBODY THE PROMPT IS BROKEN"

PROMPT_FILE_TEXT == "prompt file text"

\* what open() of the prompt file can do
PromptFileStates == {"readable", "missing", "unreadable"}

\* read_system_prompt: only FileNotFoundError is handled there
read_system_prompt(prompt_file) ==
  CASE prompt_file = "readable" -> [raised |-> "", value |-> PROMPT_FILE_TEXT]
    [] prompt_file = "missing" -> [raised |-> "", value |-> SENTINEL_PROMPT]
    [] OTHER -> [raised |-> "PermissionError", value |-> ""]

\* the length an AI response is truncated to
MAX_RESPONSE_LEN == 360

\* what awaiting openai_client.chat.completions.create can give: a response
\* with a content, a response without choices, or an OpenAIError
Completions ==
  { [kind |-> "content", content |-> <<"o", "k", " ">>],
    [kind |-> "content", content |-> <<" ">>],
    [kind |-> "content", content |-> <<>>],
    [kind |-> "no_choices", content |-> <<>>],
    [kind |-> "OpenAIError", content |-> <<>>] }

\* the response stripped and not truncated
ai_response_untruncated(completion) ==
  CASE completion.kind = "content" ->
         [raised |-> "", value |-> strip(completion.content)]
    [] completion.kind = "no_choices" -> [raised |-> "IndexError", value |-> <<>>]
    [] OTHER -> [raised |-> "OpenAIError", value |-> <<>>]

\* response.choices[0].message.content.strip()[:360]
ai_response(completion) ==
  CASE completion.kind = "content" ->
         [raised |-> "",
          value |-> Take(strip(completion.content), MAX_RESPONSE_LEN)]
    [] completion.kind = "no_choices" -> [raised |-> "IndexError", value |-> <<>>]
    [] OTHER -> [raised |-> "OpenAIError", value |-> <<>>]

\* the classes caught by "except Exception"
Exceptions ==
  {"FileNotFoundError", "PermissionError", "OSError", "OpenAIError",
   "IndexError", "ApiError", "ValueError"}

\* log_chat without its except clause
log_chat_catches_nothing(exc) == FALSE

\* line 338: except Exception
log_chat_catches(exc) == exc \in Exceptions

\* lines 421-424: except OpenAIError, except Exception
generate_twitch_channel_talk_catches(exc) ==
  exc = "OpenAIError" \/ exc \in Exceptions

\* the error text returned instead of the empty string
generate_twitch_channel_talk_failed_text == <<"e", "r", "r">>

\* line 425: what generate_twitch_channel_talk returns after an exception
generate_twitch_channel_talk_failed == <<>>

\* line 358: except Exception
generate_and_send_response_catches(exc) == exc \in Exceptions

\* line 383: except Exception
send_audio_catches(exc) == exc \in Exceptions

\* ------------------------------------------------------------ the session
User1 == <<"u", "s", "e", "r", "1">>

User2 == <<"u", "s", "e", "r", "2">>

Cheer50Hello == <<"c","h","e","e","r","5","0"," ","h","e","l","l","o">>

Cheer5Hello == <<"c","h","e","e","r","5"," ","h","e","l","l","o">>

Hi == <<"h", "i">>

\* the chat messages the platform delivers
Messages ==
  { [author |-> User1, content |-> Cheer50Hello, echo |-> FALSE],
    [author |-> User1, content |-> Cheer5Hello, echo |-> FALSE],
    [author |-> User2, content |-> Hi, echo |-> FALSE],
    [author |-> User2, content |-> Cheer50Hello, echo |-> TRUE] }

\* ------------------------------------------------------------ chat texts
\* the most words a chat text of the extraction inputs is made of
MaxPieces == 3

Cheer100 == <<"c","h","e","e","r","1","0","0">>

Kappa50 == <<"K","a","p","p","a","5","0">>

FourHead100 == <<"4","H","e","a","d","1","0","0">>

Shamrock100 == <<"S","h","a","m","r","o","c","k","1","0","0">>

UpperCheer5 == <<"C","H","E","E","R","5">>

\* the words of the chat texts: a plain word, the empty word (it makes a
\* leading, a trailing or a double space) and cheers
Pieces == {Hi, <<>>, Cheer100, Kappa50, FourHead100, Shamrock100, UpperCheer5}

\* the words separated by single spaces
RECURSIVE JoinWords(_)
JoinWords(ws) ==
  IF ws = <<>> THEN <<>>
  ELSE IF Len(ws) = 1 THEN ws[1]
  ELSE ws[1] \o <<" ">> \o JoinWords(Tail(ws))

\* message.content of the chat messages cheers are extracted from
ExtractTexts ==
  {JoinWords(ws) : ws \in UNION {[1..n -> Pieces] : n \in 1..MaxPieces}}

ExtractMessages ==
  {[author |-> User1, content |-> c, echo |-> FALSE] : c \in ExtractTexts}

\* a text that is a cheer within a cheer within a cheer
NestedCheers ==
  <<"c","h","e","e","c","h","e","e","c","h","e","e","r","9","r","1"," ",
    "r","2"," ","x">>

HellHello == <<"h","e","l","l"," ","H","E","L","L","O">>

\* message.content of the chat messages given to filter_message
FilterTexts ==
  {NestedCheers, HellHello, Cheer50Hello, Cheer5Hello, Hi,
   JoinWords(<<Hi, Cheer100, Hi>>), JoinWords(<<Cheer100, Kappa50>>)}

FilterMessages ==
  {[author |-> a, content |-> c, echo |-> FALSE] :
     a \in {User1, User2}, c \in FilterTexts}

Hell == <<"h","e","l","l">>

Hello == <<"h","e","l","l","o">>

Foo == <<"f","o","o">>

FooBar == <<"f","o","o"," ","b","a","r">>

\* a residual cheer at the very end of the text, and one followed by a letter
ResidualCheerAtEnd == <<"c","h","e","e","c","h","e","e","r","1","r","2">>

ResidualCheerInWord ==
  <<"c","h","e","e","c","h","e","e","r","1","r","2","x">>

\* a text of n digits: no whitespace, no cheer, no banned word
Filler(n) == [i \in 1..n |-> DigitSeq[(i % 10) + 1]]

\* texts with the word hell about the 130th character of "user1: " and the
\* text: with 119 to 122 digits before it the word straddles that position
LongTexts ==
  {Filler(before) \o Hell \o Filler(after) :
     before \in {118, 120, 121, 122, 123}, after \in {0, 2}}

\* texts with banned words in them
MaskTexts == {FooBar, Hello, <<"H","E","L","L","o"," ","h","e","l","l">>, Hi}

\* message.content of the chat messages whose text is sanitized
SanitizeTexts ==
  LongTexts \cup MaskTexts \cup {ResidualCheerAtEnd, ResidualCheerInWord}

SanitizeMessages ==
  {[author |-> User1, content |-> c, echo |-> FALSE] : c \in SanitizeTexts}

\* every chat message of the sessions
AllMessages ==
  Messages \cup ExtractMessages \cup FilterMessages \cup SanitizeMessages

\* the environments the configuration is loaded from
Envs ==
  { [BIT_THRESHOLD |-> Unset, TIMEOUT_DURATION |-> Unset,
     CHAT_FLAG |-> Unset, BANNED_WORDS |-> Unset],
    [BIT_THRESHOLD |-> EnvVar(<<"2", "0">>), TIMEOUT_DURATION |-> Unset,
     CHAT_FLAG |-> EnvVar(<<"T", "r", "u", "e">>),
     BANNED_WORDS |-> EnvVar(<<"h", "e", "l", "l">>)] }

\* the environments with the lists of banned words the texts are sanitized with
SanitizeEnvs ==
  { [BIT_THRESHOLD |-> Unset, TIMEOUT_DURATION |-> Unset, CHAT_FLAG |-> Unset,
     BANNED_WORDS |-> words] :
      words \in {Unset, EnvVar(Hell), EnvVar(Hell \o <<",", " ">> \o Hello),
                 EnvVar(Foo)} }

\* the settings of BIT_THRESHOLD and TIMEOUT_DURATION: absent, not a number,
\* negative, a number
ThresholdSettings ==
  {Unset, EnvVar(<<"a", "b", "c">>), EnvVar(<<"-", "5">>), EnvVar(<<"3", "0">>),
   EnvVar(<<" ", "7">>)}

TimeoutSettings ==
  {Unset, EnvVar(<<"x">>), EnvVar(<<"-", "1">>), EnvVar(<<"1", "0">>)}

ConfigEnvs ==
  { [BIT_THRESHOLD |-> bits, TIMEOUT_DURATION |-> timeout, CHAT_FLAG |-> Unset,
     BANNED_WORDS |-> Unset] :
      bits \in ThresholdSettings, timeout \in TimeoutSettings }

\* the advances of the clock between two steps of the event loop
ClockSteps == {10, 15, 16}

Tasks == 1..NTasks

VARIABLES
  now,                    \* time.time()
  running,                \* the task the event loop is running, 0 if none
  config,                 \* self.config
  last_ai_command_time,   \* self.last_ai_command_time
  chat_log,               \* the lines of the chat log file
  delivered,              \* number of event_message invocations so far
  tasks,                  \* the locals and the position of each invocation
  main                    \* main(): its position, VOICE_ID and the voice selected

vars ==
  <<now, running, config, last_ai_command_time, chat_log, delivered, tasks,
    main>>

\* ------------------------------------------------------------ main
\* config['VOICE_ID'], line 151: the default or the identifier of a voice
VoiceIds == {"default_voice", "v1", "v9"}

\* what eleven_client.voices.get_all gives: the identifiers of the voices, or
\* an exception
VoicesResponses ==
  { [ok |-> FALSE, voices |-> <<>>],
    [ok |-> TRUE, voices |-> <<>>],
    [ok |-> TRUE, voices |-> <<"v2">>],
    [ok |-> TRUE, voices |-> <<"v1", "v2">>] }

\* the voice not found handed on to the bot
fetch_voices_returns_none(VOICE_ID, voices_response) ==
  [exit |-> FALSE,
   selected_voice |->
     IF ~voices_response.ok \/ voices_response.voices = <<>> THEN "None"
     ELSE IF VOICE_ID = "default_voice" THEN voices_response.voices[1]
     ELSE IF \E i \in DOMAIN voices_response.voices :
               voices_response.voices[i] = VOICE_ID
     THEN VOICE_ID ELSE "None"]

\* lines 446-470 of fetch_voices: the first voice for "default_voice", else
\* the voice whose voice_id is VOICE_ID; sys.exit(1) when there is none and
\* when the call raised (SystemExit is not caught by except Exception)
fetch_voices(VOICE_ID, voices_response) ==
  LET voices == voices_response.voices
  IN IF ~voices_response.ok THEN [exit |-> TRUE, selected_voice |-> "None"]
     ELSE IF VOICE_ID = "default_voice"
     THEN IF voices # <<>> THEN [exit |-> FALSE, selected_voice |-> voices[1]]
          ELSE [exit |-> TRUE, selected_voice |-> "None"]
     ELSE IF \E i \in DOMAIN voices : voices[i] = VOICE_ID
     THEN [exit |-> FALSE, selected_voice |-> VOICE_ID]
     ELSE [exit |-> TRUE, selected_voice |-> "None"]

\* main() before the voices are fetched, line 499
NewMain(VOICE_ID) ==
  [pc |-> "main", VOICE_ID |-> VOICE_ID,
   voices_response |-> [ok |-> FALSE, voices |-> <<>>],
   selected_voice |-> "None"]

\* main() once the bot is started with its voice, lines 502-505
BotStarted ==
  [pc |-> "bot_started", VOICE_ID |-> "default_voice",
   voices_response |-> [ok |-> TRUE, voices |-> <<"v1", "v2">>],
   selected_voice |-> "v1"]

\* line 505: bot.start() has been reached, the bot handles the chat
bot_started == main.pc = "bot_started"

NoMessage == [author |-> <<>>, content |-> <<>>, echo |-> FALSE]

\* an invocation that has not started; trace lists what it has done so far
NewTask ==
  [pc |-> "idle", message |-> NoMessage, cheered_bits |-> 0,
   processed_content |-> <<>>, current_time |-> 0,
   filtered_message |-> <<>>, system_prompt |-> "",
   response_text |-> <<>>, trace |-> <<>>]

\* TwitchBot.__init__ after load_configuration
Init ==
  /\ now = Epoch
  /\ running = 0
  /\ config \in {load_configuration(env) : env \in Envs}
  /\ last_ai_command_time = 0
  /\ chat_log = <<>>
  /\ delivered = 0
  /\ tasks = [t \in Tasks |-> NewTask]
  /\ main = BotStarted

\* TwitchBot.__init__ with a configuration loaded from one of envs
InitWith(envs) ==
  /\ now = Epoch
  /\ running = 0
  /\ config \in {load_configuration(env) : env \in envs}
  /\ last_ai_command_time = 0
  /\ chat_log = <<>>
  /\ delivered = 0
  /\ tasks = [t \in Tasks |-> NewTask]
  /\ main = BotStarted

\* main() at line 499, with each VOICE_ID
InitStartup ==
  /\ now = Epoch
  /\ running = 0
  /\ config \in {load_configuration(env) : env \in Envs}
  /\ last_ai_command_time = 0
  /\ chat_log = <<>>
  /\ delivered = 0
  /\ tasks = [t \in Tasks |-> NewTask]
  /\ main \in {NewMain(VOICE_ID) : VOICE_ID \in VoiceIds}

\* lines 499 and 448-450: main awaits fetch_voices, which awaits the call of
\* eleven_client.voices.get_all in the executor
FetchVoices ==
  /\ main.pc = "main"
  /\ main' = [main EXCEPT !.pc = "await_voices"]
  /\ UNCHANGED <<now, running, config, last_ai_command_time, chat_log,
                 delivered, tasks>>

\* lines 452-470 and 502-505: the call returns or raises; without a voice the
\* process exits, with one the bot is made and started
VoicesReturn(voices_response) ==
  /\ main.pc = "await_voices"
  /\ LET r == fetch_voices(main.VOICE_ID, voices_response)
     IN main' = [main EXCEPT
                   !.pc = IF r.exit THEN "exited" ELSE "bot_started",
                   !.voices_response = voices_response,
                   !.selected_voice = r.selected_voice]
  /\ UNCHANGED <<now, running, config, last_ai_command_time, chat_log,
                 delivered, tasks>>

\* the clock advances while the loop waits, and while play(audio) blocks it
Tick(d) ==
  /\ IF running = 0 THEN TRUE ELSE tasks[running].pc = "playing"
  /\ now + d <= Epoch + MaxElapsed
  /\ now' = now + d
  /\ UNCHANGED <<main, running, config, last_ai_command_time, chat_log, delivered,
                 tasks>>

\* the event loop is free to start or resume a task
loop_is_free == running = 0

\* ------------------------------------------------------------ event_message
\* the task t is the one the event loop runs, at position p
At(t, p) == running = t /\ tasks[t].pc = p

\* positions at which an invocation is over: returned, or left by an exception
Over == {"done", "raised"}

\* the loop is given back when the running task is over
Release(t, p) == running' = IF p \in Over THEN 0 ELSE t

\* the echo check left out
is_echo_never(message) == FALSE

\* line 280: if message.echo
is_echo(message) == message.echo

\* the cheer-stripped text logged instead of the raw one
log_chat_args_processed(task) ==
  [username |-> task.message.author, message |-> task.processed_content]

\* line 302: the arguments of log_chat
log_chat_args(task) ==
  [username |-> task.message.author, message |-> task.message.content]

\* line 336: the line written to the chat log
log_line(username, message) == username \o <<":", " ">> \o message

\* what open(chat_log_path, 'a') and file.write can do
ChatLogFileStates == {"writable", "unwritable"}

\* the comparison made non-strict
throttle_admits_ge(current_time, last, timeout) ==
  current_time - last >= timeout

\* the comparison left out
throttle_admits_always(current_time, last, timeout) == TRUE

\* line 306: the throttle admits
throttle_admits(current_time, last, timeout) == current_time - last > timeout

\* the timestamp set a second early
throttle_update_backdated(current_time, last) == current_time - 1

\* the timestamp not updated
throttle_update_stale(current_time, last) == last

\* line 307: the timestamp after an admission
throttle_update(current_time, last) == current_time

\* a rejected message handled like an admitted one
after_throttle_always(admitted) == "filter_message"

\* lines 306-321: where event_message goes after the throttle
after_throttle(admitted) == IF admitted THEN "filter_message" ELSE "done"

\* line 311: the text given to filter_message
filter_input(task) ==
  task.message.author \o <<":", " ">> \o task.processed_content

\* the threshold check left out
threshold_met_always(bits, threshold) == TRUE

\* line 317: the bits reach the threshold
threshold_met(bits, threshold) == bits >= threshold

\* where the invocation goes when exc is raised inside
\* generate_twitch_channel_talk, inside send_audio, inside log_chat
raise_in_generate_twitch_channel_talk(exc) ==
  IF generate_twitch_channel_talk_catches(exc) THEN "check_response"
  ELSE IF generate_and_send_response_catches(exc) THEN "done"
  ELSE "raised"

\* an exception of send_audio leaving the handler
raise_in_send_audio_escapes(exc) == "raised"

raise_in_send_audio(exc) ==
  IF send_audio_catches(exc) \/ generate_and_send_response_catches(exc)
  THEN "done" ELSE "raised"

raise_in_log_chat(exc) == IF log_chat_catches(exc) THEN "throttle" ELSE "raised"

\* the platform delivers message m: a new event_message invocation starts
Deliver(m) ==
  /\ bot_started
  /\ loop_is_free
  /\ delivered < NTasks
  /\ delivered' = delivered + 1
  /\ running' = delivered + 1
  /\ tasks' = [tasks EXCEPT ![delivered + 1].pc = "event_message",
                            ![delivered + 1].message = m]
  /\ UNCHANGED <<main, now, config, last_ai_command_time, chat_log>>

\* lines 280-281
EchoCheck(t) ==
  /\ At(t, "event_message")
  /\ LET p == IF is_echo(tasks[t].message) THEN "done" ELSE "extract"
     IN /\ tasks' = [tasks EXCEPT ![t].pc = p]
        /\ Release(t, p)
  /\ UNCHANGED <<main, now, config, last_ai_command_time, chat_log, delivered>>

\* lines 283-298, for each message that can be delivered
extraction ==
  [m \in AllMessages |->
    [cheered_bits |-> extract_cheered_bits(m.content),
     processed_content |-> extract_processed_content(m.content)]]

\* lines 283-298
Extract(t) ==
  /\ At(t, "extract")
  /\ tasks' = [tasks EXCEPT
       ![t].cheered_bits = extraction[tasks[t].message].cheered_bits,
       ![t].processed_content = extraction[tasks[t].message].processed_content,
       ![t].pc = "log_chat"]
  /\ UNCHANGED <<main, now, running, config, last_ai_command_time, chat_log,
                 delivered>>

\* the lock shared by every call
log_chat_lock_shared(t) == 0

\* line 334: asyncio.Lock() makes a new lock at every call of log_chat
log_chat_lock(t) == t

\* the invocation t is between the open and the close of the chat log
InLogSection(t) == tasks[t].pc = "log_chat_write"

\* line 334: the lock of invocation t is held by nobody
lock_is_free(t) ==
  \A u \in Tasks : InLogSection(u) => log_chat_lock(u) # log_chat_lock(t)

\* an await between the open and the write
log_chat_awaits_inside_once == TRUE

\* lines 334-336: acquiring an unlocked asyncio.Lock does not suspend, and
\* open, write and close are not awaited: no await inside the section
log_chat_awaits_inside == FALSE

\* lines 300-302 and log_chat, lines 332-335: the lock is taken and the file
\* opened for appending, or open raises
LogChat(t) ==
  /\ At(t, "log_chat")
  /\ \E file \in ChatLogFileStates :
       LET p == IF ~config.CHAT_FLAG THEN "throttle"
                ELSE IF file = "unwritable" THEN raise_in_log_chat("OSError")
                ELSE "log_chat_write"
       IN /\ config.CHAT_FLAG => lock_is_free(t)
          /\ tasks' = [tasks EXCEPT
               ![t].pc = p,
               ![t].trace = IF config.CHAT_FLAG /\ file = "unwritable"
                            THEN Append(@, "log_failed") ELSE @]
          /\ running' = IF p \in Over THEN 0
                        ELSE IF p = "log_chat_write" /\ log_chat_awaits_inside
                        THEN 0 ELSE t
  /\ UNCHANGED <<main, now, config, last_ai_command_time, chat_log, delivered>>

\* lines 336-337: the line is written, the file closed and the lock released
LogChatWrite(t) ==
  /\ InLogSection(t)
  /\ IF log_chat_awaits_inside THEN running \in {0, t} ELSE running = t
  /\ LET args == log_chat_args(tasks[t])
     IN chat_log' = Append(chat_log, log_line(args.username, args.message))
  /\ tasks' = [tasks EXCEPT ![t].pc = "throttle",
                            ![t].trace = Append(@, "log_chat")]
  /\ running' = t
  /\ UNCHANGED <<main, now, config, last_ai_command_time, delivered>>

\* lines 304-307
Throttle(t) ==
  /\ At(t, "throttle")
  /\ LET admitted == throttle_admits(now, last_ai_command_time,
                                     config.TIMEOUT_DURATION)
         p == after_throttle(admitted)
     IN /\ last_ai_command_time' =
             IF admitted THEN throttle_update(now, last_ai_command_time)
             ELSE last_ai_command_time
        /\ tasks' = [tasks EXCEPT
             ![t].current_time = now,
             ![t].pc = p,
             ![t].trace = Append(@, IF admitted THEN "admitted" ELSE "rejected")]
        /\ Release(t, p)
  /\ UNCHANGED <<main, now, config, chat_log, delivered>>

\* lines 309-314
FilterMessage(t) ==
  /\ At(t, "filter_message")
  /\ tasks' = [tasks EXCEPT
       ![t].filtered_message =
          filter_message(filter_input(tasks[t]), config.BANNED_WORDS),
       ![t].pc = "threshold"]
  /\ UNCHANGED <<main, now, running, config, last_ai_command_time, chat_log,
                 delivered>>

\* lines 316-321
Threshold(t) ==
  /\ At(t, "threshold")
  /\ LET met == threshold_met(tasks[t].cheered_bits, config.BIT_THRESHOLD)
         p == IF met THEN "generate_and_send_response" ELSE "done"
     IN /\ tasks' = [tasks EXCEPT
             ![t].pc = p,
             ![t].trace = IF met THEN Append(@, "cycle") ELSE @]
        /\ Release(t, p)
  /\ UNCHANGED <<main, now, config, last_ai_command_time, chat_log, delivered>>

\* ------------------------------------------------------------ the cycle
\* lines 349-351 and 403-404: generate_and_send_response calls
\* generate_twitch_channel_talk, which reads the prompt file
GenerateAndSendResponse(t) ==
  /\ At(t, "generate_and_send_response")
  /\ \E prompt_file \in PromptFileStates :
       LET r == read_system_prompt(prompt_file)
           p == IF r.raised = "" THEN "create_completion"
                ELSE raise_in_generate_twitch_channel_talk(r.raised)
       IN /\ tasks' = [tasks EXCEPT
               ![t].pc = p,
               ![t].system_prompt = r.value,
               ![t].response_text =
                  IF r.raised = "" THEN @ ELSE generate_twitch_channel_talk_failed,
               ![t].trace = IF r.raised = "" THEN @ ELSE Append(@, "prompt_failed")]
          /\ Release(t, p)
  /\ UNCHANGED <<main, now, config, last_ai_command_time, chat_log, delivered>>

\* lines 405-414: the request is sent and the task waits for the response
CreateCompletion(t) ==
  /\ At(t, "create_completion")
  /\ tasks' = [tasks EXCEPT ![t].pc = "await_completion",
                            ![t].trace = Append(@, "openai_request")]
  /\ running' = 0
  /\ UNCHANGED <<main, now, config, last_ai_command_time, chat_log, delivered>>

\* lines 408-425: the response arrives, or the request raises; the locals of
\* generate_twitch_channel_talk end with its return
CompletionReturns(t, completion) ==
  /\ loop_is_free
  /\ tasks[t].pc = "await_completion"
  /\ LET r == ai_response(completion)
         p == IF r.raised = "" THEN "check_response"
              ELSE raise_in_generate_twitch_channel_talk(r.raised)
     IN /\ tasks' = [tasks EXCEPT
             ![t].pc = p,
             ![t].system_prompt = "",
             ![t].response_text =
                IF r.raised = "" THEN r.value
                ELSE generate_twitch_channel_talk_failed,
             ![t].trace =
                Append(@, IF r.raised = "" THEN "openai_reply"
                          ELSE "openai_failed")]
        /\ Release(t, p)
  /\ UNCHANGED <<main, now, config, last_ai_command_time, chat_log, delivered>>

\* the test of the response left out
has_response_always(response_text) == TRUE

\* line 353: if response_text
has_response(response_text) == response_text # <<>>

\* lines 352-357
CheckResponse(t) ==
  /\ At(t, "check_response")
  /\ LET p == IF has_response(tasks[t].response_text) THEN "send_audio"
              ELSE "done"
     IN /\ tasks' = [tasks EXCEPT
             ![t].pc = p,
             ![t].trace = IF p = "done" THEN Append(@, "skipped") ELSE @]
        /\ Release(t, p)
  /\ UNCHANGED <<main, now, config, last_ai_command_time, chat_log, delivered>>

\* lines 369-380: eleven_client.generate is handed to the executor and the
\* task waits for it
SendAudio(t) ==
  /\ At(t, "send_audio")
  /\ tasks' = [tasks EXCEPT ![t].pc = "await_generate",
                            ![t].trace = Append(@, "eleven_request")]
  /\ running' = 0
  /\ UNCHANGED <<main, now, config, last_ai_command_time, chat_log, delivered>>

\* lines 372-384: the executor call returns the audio and play(audio) starts
\* on the event loop, or the call raises
GenerateReturns(t, audio) ==
  /\ loop_is_free
  /\ tasks[t].pc = "await_generate"
  /\ LET p == IF audio THEN "playing" ELSE raise_in_send_audio("ApiError")
     IN /\ tasks' = [tasks EXCEPT
             ![t].pc = p,
             ![t].trace = Append(@, IF audio THEN "play" ELSE "eleven_failed")]
        /\ running' = IF p \in Over THEN 0 ELSE t
  /\ UNCHANGED <<main, now, config, last_ai_command_time, chat_log, delivered>>

\* lines 381-384: play(audio) returns or raises
PlayReturns(t, played) ==
  /\ At(t, "playing")
  /\ LET p == IF played THEN "done" ELSE raise_in_send_audio("ValueError")
     IN /\ tasks' = [tasks EXCEPT
             ![t].pc = p,
             ![t].trace = Append(@, IF played THEN "played" ELSE "play_failed")]
        /\ Release(t, p)
  /\ UNCHANGED <<main, now, config, last_ai_command_time, chat_log, delivered>>

Next ==
  \/ \E d \in ClockSteps : Tick(d)
  \/ \E m \in Messages : Deliver(m)
  \/ \E t \in Tasks : EchoCheck(t)
  \/ \E t \in Tasks : Extract(t)
  \/ \E t \in Tasks : LogChat(t)
  \/ \E t \in Tasks : LogChatWrite(t)
  \/ \E t \in Tasks : Throttle(t)
  \/ \E t \in Tasks : FilterMessage(t)
  \/ \E t \in Tasks : Threshold(t)
  \/ \E t \in Tasks : GenerateAndSendResponse(t)
  \/ \E t \in Tasks : CreateCompletion(t)
  \/ \E t \in Tasks : \E completion \in Completions :
       CompletionReturns(t, completion)
  \/ \E t \in Tasks : CheckResponse(t)
  \/ \E t \in Tasks : SendAudio(t)
  \/ \E t \in Tasks : \E audio \in BOOLEAN : GenerateReturns(t, audio)
  \/ \E t \in Tasks : \E played \in BOOLEAN : PlayReturns(t, played)

Spec == Init /\ [][Next]_vars

\* ------------------------------------------------------------ long replies
\* the lengths of the replies around the limit of 360 characters
ReplyLens == {MAX_RESPONSE_LEN - 1, MAX_RESPONSE_LEN, MAX_RESPONSE_LEN + 1,
              MAX_RESPONSE_LEN + 5}

\* the whitespace that can surround a reply
ReplyMargins == {<<>>, <<"\n", " ">>}

\* a text of n characters with no whitespace: the digit at position i tells
\* i modulo 10
Body(n) == [i \in 1..n |-> DigitSeq[(i % 10) + 1]]

\* message.content of a completion: a text of n characters within margins
Reply(lead, n, trail) == lead \o Body(n) \o trail

\* completions whose content is about as long as the limit
LongCompletions ==
  { [kind |-> "content", content |-> Reply(lead, n, trail)] :
      lead \in ReplyMargins, n \in ReplyLens, trail \in ReplyMargins }

\* the session with long replies of the text-generation service
NextLong ==
  \/ \E d \in ClockSteps : Tick(d)
  \/ \E m \in Messages : Deliver(m)
  \/ \E t \in Tasks : EchoCheck(t)
  \/ \E t \in Tasks : Extract(t)
  \/ \E t \in Tasks : LogChat(t)
  \/ \E t \in Tasks : LogChatWrite(t)
  \/ \E t \in Tasks : Throttle(t)
  \/ \E t \in Tasks : FilterMessage(t)
  \/ \E t \in Tasks : Threshold(t)
  \/ \E t \in Tasks : GenerateAndSendResponse(t)
  \/ \E t \in Tasks : CreateCompletion(t)
  \/ \E t \in Tasks : \E completion \in LongCompletions :
       CompletionReturns(t, completion)
  \/ \E t \in Tasks : CheckResponse(t)
  \/ \E t \in Tasks : SendAudio(t)
  \/ \E t \in Tasks : \E audio \in BOOLEAN : GenerateReturns(t, audio)
  \/ \E t \in Tasks : \E played \in BOOLEAN : PlayReturns(t, played)

SpecLong == Init /\ [][NextLong]_vars

\* ------------------------------------------------------------ extraction
\* the extraction of lines 283-298 applied to the chat texts
NextExtract ==
  \/ \E m \in ExtractMessages : Deliver(m)
  \/ \E t \in Tasks : EchoCheck(t)
  \/ \E t \in Tasks : Extract(t)

SpecExtract == Init /\ [][NextExtract]_vars

\* ------------------------------------------------------------ filtering
\* event_message up to filter_message, lines 274-314
NextFilter ==
  \/ \E m \in FilterMessages : Deliver(m)
  \/ \E t \in Tasks : EchoCheck(t)
  \/ \E t \in Tasks : Extract(t)
  \/ \E t \in Tasks : LogChat(t)
  \/ \E t \in Tasks : LogChatWrite(t)
  \/ \E t \in Tasks : Throttle(t)
  \/ \E t \in Tasks : FilterMessage(t)

SpecFilter == Init /\ [][NextFilter]_vars

\* ------------------------------------------------------------ sanitizing
\* event_message up to filter_message, lines 274-314, with banned words
NextSanitize ==
  \/ \E m \in SanitizeMessages : Deliver(m)
  \/ \E t \in Tasks : EchoCheck(t)
  \/ \E t \in Tasks : Extract(t)
  \/ \E t \in Tasks : LogChat(t)
  \/ \E t \in Tasks : Throttle(t)
  \/ \E t \in Tasks : FilterMessage(t)

SpecSanitize == InitWith(SanitizeEnvs) /\ [][NextSanitize]_vars

\* ------------------------------------------------------------ startup
\* main() from the fetch of the voices to the first chat messages
NextStartup ==
  \/ FetchVoices
  \/ \E voices_response \in VoicesResponses : VoicesReturn(voices_response)
  \/ \E m \in Messages : Deliver(m)
  \/ \E t \in Tasks : EchoCheck(t)
  \/ \E t \in Tasks : Extract(t)
  \/ \E t \in Tasks : LogChat(t)
  \/ \E t \in Tasks : LogChatWrite(t)
  \/ \E t \in Tasks : Throttle(t)

SpecStartup == InitStartup /\ [][NextStartup]_vars

\* ------------------------------------------------------------ settings
\* event_message up to the threshold check, with each setting
NextConfig ==
  \/ \E m \in Messages : Deliver(m)
  \/ \E t \in Tasks : EchoCheck(t)
  \/ \E t \in Tasks : Extract(t)
  \/ \E t \in Tasks : LogChat(t)
  \/ \E t \in Tasks : Throttle(t)
  \/ \E t \in Tasks : FilterMessage(t)
  \/ \E t \in Tasks : Threshold(t)

SpecConfig == InitWith(ConfigEnvs) /\ [][NextConfig]_vars

\* the steps of invocation t: the event loop runs a ready task until it
\* suspends or ends, and a collaborator call returns or raises
Step(t) ==
  \/ EchoCheck(t) \/ Extract(t) \/ LogChat(t) \/ LogChatWrite(t)
  \/ Throttle(t)
  \/ FilterMessage(t) \/ Threshold(t) \/ GenerateAndSendResponse(t)
  \/ CreateCompletion(t)
  \/ \E completion \in Completions : CompletionReturns(t, completion)
  \/ CheckResponse(t) \/ SendAudio(t)
  \/ \E audio \in BOOLEAN : GenerateReturns(t, audio)
  \/ \E played \in BOOLEAN : PlayReturns(t, played)

\* every invocation that can go on eventually does; nothing is assumed about
\* the clock or about the arrival of messages
FairSpec == Spec /\ \A t \in Tasks : WF_vars(Step(t))

\* ------------------------------------------------------------ properties
\* the invocation t has done op
Has(t, op) == \E i \in DOMAIN tasks[t].trace : tasks[t].trace[i] = op

\* how often the invocation t has done op
Count(t, op) ==
  Cardinality({i \in DOMAIN tasks[t].trace : tasks[t].trace[i] = op})

Admitted(t) == Has(t, "admitted")

Rejected(t) == Has(t, "rejected")

\* the throttle has been evaluated for the message of t
Evaluated(t) == Admitted(t) \/ Rejected(t)

\* event_message has got past the bits threshold check, or has returned
Decided(t) ==
  tasks[t].pc \notin {"idle", "event_message", "extract", "log_chat",
                      "log_chat_write", "throttle", "filter_message",
                      "threshold"}

\* a generation cycle was started for the message of t and is not over
InCycle(t) == Has(t, "cycle") /\ tasks[t].pc \notin Over

\* the step in which t evaluates the throttle
ThrottleStep(t) == tasks[t].pc = "throttle" /\ tasks'[t].pc # "throttle"

\* t1 and t2 evaluated the throttle one right after the other
Consecutive(t1, t2) ==
  /\ t1 < t2 /\ Evaluated(t1) /\ Evaluated(t2)
  /\ \A t \in Tasks : t1 < t /\ t < t2 => ~Evaluated(t)

\* C1: a message handled at time now is admitted if and only if
\* now - last_ai_command_time > TIMEOUT_DURATION (strictly), an admission sets
\* last_ai_command_time to now; with a cooldown of 15, of two consecutive
\* evaluations 10 seconds apart only the first is admitted, and of two
\* evaluations 16 seconds apart both are.
C1_ThrottleAdmission ==
  /\ [][\A t \in Tasks : ThrottleStep(t) =>
          LET admit == now - last_ai_command_time > config.TIMEOUT_DURATION
          IN /\ tasks'[t].trace =
                  Append(tasks[t].trace,
                         IF admit THEN "admitted" ELSE "rejected")
             /\ tasks'[t].pc = IF admit THEN "filter_message" ELSE "done"
             /\ admit => last_ai_command_time' = now]_vars
  /\ [](\A t1, t2 \in Tasks :
          /\ Consecutive(t1, t2)
          /\ Admitted(t1)
          /\ config.TIMEOUT_DURATION = 15
          => /\ tasks[t2].current_time - tasks[t1].current_time = 10
                  => Rejected(t2)
             /\ tasks[t2].current_time - tasks[t1].current_time = 16
                  => Admitted(t2))

\* an admission, then a message exactly TIMEOUT_DURATION seconds later, rejected
C1_Witness ==
  \E t1, t2 \in Tasks :
    /\ Admitted(t1) /\ Rejected(t2)
    /\ config.TIMEOUT_DURATION = 15
    /\ tasks[t2].current_time - tasks[t1].current_time = 15

\* C2: whatever the interleaving of the event_message invocations, two messages
\* whose throttle evaluations lie within one cooldown window are never both
\* admitted; of two such messages that both carry at least BIT_THRESHOLD bits,
\* the first being admitted, exactly one starts a generation cycle.
C2_NoDoubleAdmission ==
  \A t1, t2 \in Tasks :
    /\ t1 < t2 /\ Evaluated(t1) /\ Evaluated(t2)
    /\ tasks[t2].current_time - tasks[t1].current_time
         <= config.TIMEOUT_DURATION
    => /\ ~(Admitted(t1) /\ Admitted(t2))
       /\ ~(Has(t1, "cycle") /\ Has(t2, "cycle"))
       /\ /\ Admitted(t1) /\ Decided(t1) /\ Decided(t2)
          /\ tasks[t1].cheered_bits >= config.BIT_THRESHOLD
          /\ tasks[t2].cheered_bits >= config.BIT_THRESHOLD
          => Has(t1, "cycle") /\ ~Has(t2, "cycle")

\* the first message waits for its completion when the second one, with
\* enough bits and inside the window, is rejected
C2_Witness ==
  \E t1, t2 \in Tasks :
    /\ t1 < t2
    /\ tasks[t1].pc = "await_completion"
    /\ Rejected(t2) /\ tasks[t2].pc = "done"
    /\ tasks[t2].cheered_bits >= config.BIT_THRESHOLD
    /\ tasks[t2].current_time - tasks[t1].current_time
         <= config.TIMEOUT_DURATION

\* C3: at most one generation cycle is in flight: no request for a completion
\* is sent for a second cycle while an earlier cycle is not over.
C3_OneCycleInFlight ==
  \A t1, t2 \in Tasks :
    t1 < t2 /\ InCycle(t1) => tasks[t2].pc # "await_completion"

C5_RejectedIsDropped ==
  /\ [][\A t \in Tasks :
          ThrottleStep(t)
          /\ ~(now - last_ai_command_time > config.TIMEOUT_DURATION)
          => last_ai_command_time' = last_ai_command_time]_vars
  /\ [](\A t \in Tasks :
          Rejected(t) =>
            /\ tasks[t].pc = "done"
            /\ ~Has(t, "cycle")
            /\ ~Has(t, "openai_request"))

\* a rejected message with enough bits, and the cooldown has since elapsed
C5_Witness ==
  \E t \in Tasks :
    /\ Rejected(t)
    /\ tasks[t].cheered_bits >= config.BIT_THRESHOLD
    /\ now - last_ai_command_time > config.TIMEOUT_DURATION

\* the tasks before t (t included) that wrote their line, as the file has them
RECURSIVE LoggedLines(_)
LoggedLines(t) ==
  IF t = 0 THEN <<>>
  ELSE LoggedLines(t - 1) \o
       (IF Has(t, "log_chat")
        THEN <<tasks[t].message.author \o <<":", " ">> \o
               tasks[t].message.content>>
        ELSE <<>>)

\* what the extraction gives for each message of the session
ExtractedBits == [m \in Messages |-> extract_cheered_bits(m.content)]

\* what filter_message is to be given, and to give, for each message of the
\* session and each list of banned words
FilteredText ==
  [m \in Messages |->
    [env \in Envs |->
      filter_message(
        m.author \o <<":", " ">> \o extract_processed_content(m.content),
        load_configuration(env).BANNED_WORDS)]]

C7_SubThresholdConsumesWindow ==
  \A t1 \in Tasks :
    /\ Admitted(t1) /\ Decided(t1)
    /\ tasks[t1].cheered_bits < config.BIT_THRESHOLD
    => /\ ~Has(t1, "cycle")
       /\ (\A t2 \in Tasks : t1 < t2 => ~Admitted(t2))
            => last_ai_command_time = tasks[t1].current_time
       /\ \A t2 \in Tasks :
            /\ t1 < t2 /\ Evaluated(t2)
            /\ tasks[t2].current_time - tasks[t1].current_time
                 <= config.TIMEOUT_DURATION
            => Rejected(t2)

\* a message below the threshold is admitted, and one with enough bits is
\* rejected 10 seconds later
C7_Witness ==
  \E t1, t2 \in Tasks :
    /\ t1 < t2
    /\ Admitted(t1) /\ tasks[t1].cheered_bits < config.BIT_THRESHOLD
    /\ Rejected(t2) /\ tasks[t2].cheered_bits >= config.BIT_THRESHOLD
    /\ tasks[t2].current_time - tasks[t1].current_time = 10

\* C8: an echo is discarded with no effect: nothing is done for it, the chat
\* log holds the lines of the other messages only, and last_ai_command_time is
\* 0 or the time of an admitted message.
C8_EchoDiscarded ==
  /\ \A t \in Tasks :
       tasks[t].message.echo =>
         /\ tasks[t].pc \in {"event_message", "done"}
         /\ tasks[t].trace = <<>>
         /\ tasks[t].current_time = 0
  /\ Len(chat_log) =
       Cardinality({t \in Tasks : ~tasks[t].message.echo /\ Has(t, "log_chat")})
  /\ \/ last_ai_command_time = 0
     \/ \E t \in Tasks :
          /\ ~tasks[t].message.echo /\ Admitted(t)
          /\ last_ai_command_time = tasks[t].current_time

\* an echo with 50 bits was discarded with logging on and the throttle open
C8_Witness ==
  \E t \in Tasks :
    /\ tasks[t].message.echo /\ tasks[t].pc = "done"
    /\ tasks[t].message.content = Cheer50Hello
    /\ config.CHAT_FLAG
    /\ now - last_ai_command_time > config.TIMEOUT_DURATION
    /\ chat_log = <<>>

\* C9: with CHAT_FLAG set, log_chat is called once for every message that is
\* not an echo, before the throttle is evaluated and whatever the bits and the
\* throttle say, and every write appends the line "{author}: {content}" with
\* the raw content; with CHAT_FLAG not set nothing is ever appended.
C9_TranscriptLine ==
  /\ chat_log = LoggedLines(NTasks)
  /\ ~config.CHAT_FLAG =>
       /\ chat_log = <<>>
       /\ \A t \in Tasks : ~Has(t, "log_chat") /\ ~Has(t, "log_failed")
  /\ config.CHAT_FLAG =>
       \A t \in Tasks :
         /\ ~tasks[t].message.echo
         /\ tasks[t].pc \notin {"idle", "event_message", "extract", "log_chat",
                              "log_chat_write"}
         => /\ Count(t, "log_chat") + Count(t, "log_failed") = 1
            /\ tasks[t].trace[1] \in {"log_chat", "log_failed"}

\* the raw line of a rejected message is in the log, cheer included
C9_Witness ==
  \E t \in Tasks :
    /\ config.CHAT_FLAG
    /\ Rejected(t) /\ Has(t, "log_chat")
    /\ tasks[t].message.content = Cheer50Hello
    /\ chat_log[Len(chat_log)] =
         <<"u","s","e","r","1",":"," ",
           "c","h","e","e","r","5","0"," ","h","e","l","l","o">>

\* C10: no error of the completion request, of the audio generation or of the
\* playback leaves event_message; after a failed completion no audio is
\* requested or played, after a failed audio generation nothing is played;
\* and a later message that is admitted with enough bits starts its cycle.
C10_ErrorsCaught ==
  \A t \in Tasks :
    /\ tasks[t].pc # "raised"
    /\ Has(t, "openai_failed") =>
         /\ ~Has(t, "eleven_request") /\ ~Has(t, "play")
         /\ tasks[t].response_text = <<>>
         /\ tasks[t].pc \in {"check_response", "done"}
    /\ Has(t, "eleven_failed") => ~Has(t, "play") /\ tasks[t].pc = "done"
    /\ Has(t, "play_failed") => ~Has(t, "played") /\ tasks[t].pc = "done"
    /\ /\ Decided(t) /\ Admitted(t)
       /\ tasks[t].cheered_bits >= config.BIT_THRESHOLD
       /\ \E t1 \in Tasks :
            t1 < t /\ (Has(t1, "openai_failed") \/ Has(t1, "eleven_failed")
                       \/ Has(t1, "play_failed"))
       => Has(t, "cycle")

\* a cycle ended by a failed completion, and a later cycle has sent its request
C10_Witness ==
  \E t1, t2 \in Tasks :
    /\ t1 < t2
    /\ Has(t1, "openai_failed") /\ tasks[t1].pc = "done"
    /\ Has(t2, "openai_request")

\* C11: when the completion has an empty or whitespace-only content the cycle
\* ends with no audio request and no playback; an audio request is only ever
\* made with a text that is not empty and not whitespace.
C11_EmptyReplySkipsAudio ==
  \A t \in Tasks :
    /\ Has(t, "openai_reply") /\ tasks[t].response_text = <<>> =>
         /\ ~Has(t, "eleven_request") /\ ~Has(t, "play")
         /\ tasks[t].pc \in {"check_response", "done"}
         /\ tasks[t].pc = "done" => Has(t, "skipped")
    /\ Has(t, "eleven_request") =>
         /\ tasks[t].response_text # <<>>
         /\ strip(tasks[t].response_text) # <<>>
         /\ Has(t, "openai_reply")

\* a completion arrived, its text was empty after strip, the cycle was skipped
C11_Witness ==
  \E t \in Tasks :
    /\ Has(t, "openai_reply") /\ Has(t, "skipped")
    /\ tasks[t].response_text = <<>> /\ tasks[t].pc = "done"

\* the outcomes of a cycle: Spoken, SkippedEmpty, Failed
Outcomes == {"played", "skipped", "eleven_failed", "play_failed"}

\* the cycle of invocation t has reached one of its outcomes
Finished(t) ==
  /\ tasks[t].pc = "done"
  /\ tasks[t].trace # <<>>
  /\ tasks[t].trace[Len(tasks[t].trace)] \in Outcomes

\* C12: a cycle that has been started reaches one of its outcomes whatever
\* messages arrive afterwards, provided the collaborator calls return or
\* raise: from some point on every cycle that was started is over with its
\* outcome (an outcome, once reached, stays); and the delivery of a message
\* changes nothing of an invocation in flight.
C12_CycleRunsToOutcome ==
  /\ <>[](\A t \in Tasks : Has(t, "cycle") => Finished(t))
  /\ [][\A t \in Tasks :
          tasks[t].pc # "idle" /\ delivered' # delivered => tasks'[t] = tasks[t]]_vars

\* a later message has been handled to its end while a cycle is in flight
C12_Witness ==
  \E t, u \in Tasks :
    /\ t < u /\ Has(t, "cycle")
    /\ tasks[t].pc \in {"await_completion", "await_generate"}
    /\ tasks[u].pc = "done" /\ Count(u, "rejected") = 1

\* C13: whatever makes the prompt file unavailable, the cycle goes on with the
\* sentinel as system prompt: once the prompt has been read the request for a
\* completion is about to be sent, or has been sent.
C13_SentinelAndProceed ==
  \A t \in Tasks :
    Has(t, "cycle") /\ tasks[t].pc # "generate_and_send_response" =>
      \/ /\ tasks[t].pc = "create_completion"
         /\ tasks[t].system_prompt \in {PROMPT_FILE_TEXT, SENTINEL_PROMPT}
      \/ Has(t, "openai_request")

\* C14: when the chat log cannot be written with CHAT_FLAG set, no line is
\* appended and the error does not leave log_chat: the same message goes on to
\* the throttle, which is evaluated once, and its cycle starts if and only if
\* it is admitted with enough bits.
C14_LogFailureDoesNotStopHandling ==
  \A t \in Tasks :
    Has(t, "log_failed") =>
      /\ config.CHAT_FLAG
      /\ ~Has(t, "log_chat")
      /\ Len(chat_log) = Cardinality({u \in Tasks : Has(u, "log_chat")})
      /\ tasks[t].pc # "raised"
      /\ tasks[t].pc # "throttle" => Count(t, "admitted") + Count(t, "rejected") = 1
      /\ Decided(t) =>
           (Has(t, "cycle") <=>
              Admitted(t) /\ tasks[t].cheered_bits >= config.BIT_THRESHOLD)

\* the write failed and the request for a completion was sent all the same
C14_Witness ==
  \E t \in Tasks :
    /\ Has(t, "log_failed") /\ chat_log = <<>>
    /\ Admitted(t) /\ Has(t, "openai_request")

\* the invocations that are between the open and the close of the chat log
Writers == {t \in Tasks : InLogSection(t)}

\* C15: the open-write-close of one line of the chat log is never interleaved
\* with that of another: at most one invocation is between open and close,
\* no other invocation runs meanwhile, and the chat log is made of whole
\* "{author}: {content}" lines, one for each message logged.
C15_AppendsSerialized ==
  /\ Cardinality(Writers) <= 1
  /\ \A t \in Writers : running = t
  /\ Len(chat_log) = Cardinality({t \in Tasks : Has(t, "log_chat")})
  /\ \A i \in DOMAIN chat_log :
       \E t \in Tasks :
         /\ Has(t, "log_chat")
         /\ chat_log[i] = log_line(tasks[t].message.author,
                                   tasks[t].message.content)

\* two invocations run concurrently, the earlier one still awaits its
\* completion, and each has written its line
C15_Witness ==
  /\ config.CHAT_FLAG
  /\ tasks[1].pc = "await_completion" /\ tasks[2].pc = "done"
  /\ Has(1, "log_chat") /\ Has(2, "log_chat")
  /\ Len(chat_log) = 2 /\ chat_log[1] # chat_log[2]

\* the texts without whitespace, by their length
Bodies == [n \in 0..365 |-> Body(n)]

\* the first 360 characters of each long reply without its margins
ExpectedText ==
  [c \in LongCompletions |->
    LET n == CHOOSE n \in ReplyLens :
               \E lead, trail \in ReplyMargins : c.content = Reply(lead, n, trail)
    IN Bodies[IF n < 360 THEN n ELSE 360]]

\* C16: the text given to the speech synthesis has at most 360 characters: for
\* a reply of any length within any surrounding whitespace it is the first 360
\* characters of the reply without that whitespace.
C16_ResponseTruncated ==
  /\ [](\A t \in Tasks :
          Has(t, "eleven_request") =>
            /\ Len(tasks[t].response_text) <= 360
            /\ tasks[t].response_text = Bodies[Len(tasks[t].response_text)])
  /\ [][\A t \in Tasks :
          tasks[t].pc = "await_completion" /\ tasks'[t].pc = "check_response" =>
            \A c \in DOMAIN ExpectedText :
              CompletionReturns(t, c) =>
                tasks'[t].response_text = ExpectedText[c]]_vars

\* the audio was requested for a text of exactly 360 characters
C16_Witness ==
  \E t \in Tasks :
    /\ Has(t, "eleven_request")
    /\ Len(tasks[t].response_text) = 360
    /\ tasks[t].response_text[360] = "0"

\* ------------------------------------------------------------ extraction
\* the amount of each cheer of the chat texts, as the platform counts it: the
\* whole run of digits that follows the prefix
CheerAmount ==
  [w \in Pieces |->
    CASE w = Cheer100 -> 100
      [] w = Kappa50 -> 50
      [] w = FourHead100 -> 100
      [] w = Shamrock100 -> 100
      [] w = UpperCheer5 -> 5
      [] OTHER -> 0]

IsCheer(w) == CheerAmount[w] > 0

\* the words of a text, which single spaces separate
RECURSIVE Words(_)
Words(text) ==
  LET spaces == {i \in 1..Len(text) : text[i] = " "}
  IN IF spaces = {} THEN <<text>>
     ELSE LET i == CHOOSE i \in spaces : \A j \in spaces : i <= j
          IN <<SubSeq(text, 1, i - 1)>> \o Words(SubSeq(text, i + 1, Len(text)))

RECURSIVE SumAmounts(_)
SumAmounts(ws) ==
  IF ws = <<>> THEN 0 ELSE CheerAmount[Head(ws)] + SumAmounts(Tail(ws))

\* the cheers of a text
Cheers(text) == SelectSeq(Words(text), IsCheer)

IsPlainWord(w) == w # <<>> /\ ~IsCheer(w)

\* the text without its cheers, the whitespace around them collapsed
Cleaned(text) == JoinWords(SelectSeq(Words(text), IsPlainWord))

\* sub occurs in text
Occurs(sub, text) ==
  \E i \in 1..(Len(text) - Len(sub) + 1) :
    SubSeq(text, i, i + Len(sub) - 1) = sub

\* the extraction has been done for the message of t
Extracted(t) == tasks[t].pc \notin {"idle", "event_message", "extract"}

\* C17: the cheered bits are the sum of the amounts of all the cheers of the
\* text, the amount of a cheer being the whole run of digits after its
\* prefix, for every prefix (4Head and Shamrock included) and any case.
C17_AllCheersSummed ==
  \A t \in Tasks :
    Extracted(t) =>
      tasks[t].cheered_bits = SumAmounts(Words(tasks[t].message.content))

\* C18: for a text with no cheer the extraction gives 0 bits and the text
\* with its leading and trailing whitespace stripped.
C18_NoCheerStripped ==
  \A t \in Tasks :
    Extracted(t) /\ Cheers(tasks[t].message.content) = <<>> =>
      /\ tasks[t].cheered_bits = 0
      /\ tasks[t].processed_content = strip(tasks[t].message.content)

\* C19: the cleaned text is the text without its cheers, the whitespace
\* around them collapsed, and stripped; a text whose cheers are cheer100
\* and Kappa50 gives 150 bits and a cleaned text where neither occurs.
C19_CheersRemovedAndCollapsed ==
  \A t \in Tasks :
    Extracted(t) =>
      /\ tasks[t].processed_content = Cleaned(tasks[t].message.content)
      /\ Cheers(tasks[t].message.content) \in
           {<<Cheer100, Kappa50>>, <<Kappa50, Cheer100>>} =>
           /\ tasks[t].cheered_bits = 150
           /\ ~Occurs(Cheer100, tasks[t].processed_content)
           /\ ~Occurs(Kappa50, tasks[t].processed_content)

\* ------------------------------------------------------------ filtering
\* filter_message has been applied for the message of t
Filtered(t) ==
  Admitted(t) /\ tasks[t].pc \notin {"throttle", "filter_message"}

\* C20: filter_message is idempotent: applied to its own result with the same
\* banned words it gives that result again.
C20_FilterIdempotent ==
  \A t \in Tasks :
    Filtered(t) =>
      filter_message(tasks[t].filtered_message, config.BANNED_WORDS)
        = tasks[t].filtered_message

\* ------------------------------------------------------------ sanitizing
\* the words of a list, as a set
WordSet(banned_words) == {banned_words[i] : i \in DOMAIN banned_words}

\* a long text with its letters masked: all its letters are those of hell
MaskedLong(text) == [i \in DOMAIN text |-> IF IsDigit(text[i]) THEN text[i] ELSE "*"]

\* C21: the result of filter_message has at most 130 characters and the
\* truncation comes last: it is the first 130 characters of the masked text,
\* so that the part kept of a banned word that straddles the 130th character
\* is masked.
C21_TruncatedAfterMasking ==
  \A t \in Tasks :
    Filtered(t) =>
      /\ Len(tasks[t].filtered_message) <= 130
      /\ tasks[t].message.content \in LongTexts =>
           LET content == tasks[t].message.content
               masked == IF Hell \in WordSet(config.BANNED_WORDS)
                         THEN MaskedLong(content) ELSE content
               whole == tasks[t].message.author \o <<":", " ">> \o masked
           IN tasks[t].filtered_message =
                SubSeq(whole, 1, IF Len(whole) < 130 THEN Len(whole) ELSE 130)

\* the banned word hell begins at the 129th character: the result ends with
\* the two stars of its first half
C21_Witness ==
  \E t \in Tasks :
    /\ Filtered(t) /\ Hell \in WordSet(config.BANNED_WORDS)
    /\ tasks[t].message.content = Filler(121) \o Hell \o Filler(2)
    /\ Len(tasks[t].filtered_message) = 130
    /\ tasks[t].filtered_message[129] = "*"
    /\ tasks[t].filtered_message[130] = "*"

\* C22: every occurrence of every banned word, in any case, is replaced by as
\* many stars as the word has characters, also where banned words overlap:
\* the masking keeps the length of the text and leaves no occurrence of a
\* banned word; with the banned word foo, "foo bar" becomes "*** bar".
C22_EveryOccurrenceMasked ==
  \A t \in Tasks :
    Filtered(t) /\ tasks[t].message.content \in MaskTexts =>
      LET input == tasks[t].message.author \o <<":", " ">>
                     \o tasks[t].message.content
          output == tasks[t].filtered_message
          words == WordSet(config.BANNED_WORDS) \ {<<>>}
      IN /\ Len(output) = Len(input)
         /\ \A w \in words : \A i \in 1..Len(input) :
              LiteralAt(input, i, w) =>
                \A k \in i..(i + Len(w) - 1) : output[k] = "*"
         /\ \A w \in words : \A i \in 1..Len(output) : ~LiteralAt(output, i, w)
         /\ config.BANNED_WORDS = <<Foo>> /\ tasks[t].message.content = FooBar =>
              output = tasks[t].message.author
                         \o <<":"," ","*","*","*"," ","b","a","r">>

\* "cheer", in any case, with a digit right after it stands at position i
BareCheerAt(text, i) ==
  /\ LiteralAt(text, i, <<"c","h","e","e","r">>)
  /\ i + 5 <= Len(text) /\ IsDigit(text[i + 5])

\* C23: the result of filter_message has no "cheer", in any case, followed by
\* digits, wherever it stands: at the very end of the text or right before a
\* character that is not a space as well.
C23_NoResidualCheer ==
  \A t \in Tasks :
    Filtered(t) =>
      \A i \in 1..Len(tasks[t].filtered_message) :
        ~BareCheerAt(tasks[t].filtered_message, i)

\* ------------------------------------------------------------ startup
\* a voice can be resolved: the voices were fetched, there is one, and
\* VOICE_ID is the default or the identifier of one of them
Resolvable ==
  /\ main.voices_response.ok
  /\ main.voices_response.voices # <<>>
  /\ \/ main.VOICE_ID = "default_voice"
     \/ \E i \in DOMAIN main.voices_response.voices :
          main.voices_response.voices[i] = main.VOICE_ID

\* C24: when the list of voices is empty, VOICE_ID is not in it or the fetch
\* fails, the process exits and no chat message is ever handled; the bot is
\* started only with a voice of the list, the one VOICE_ID names.
C24_NoVoiceIsFatal ==
  /\ main.pc \in {"bot_started", "exited"} =>
       (main.pc = "exited" <=> ~Resolvable)
  /\ main.pc # "bot_started" =>
       /\ delivered = 0 /\ running = 0 /\ chat_log = <<>>
       /\ \A t \in Tasks : tasks[t].pc = "idle"
  /\ main.pc = "bot_started" =>
       /\ \E i \in DOMAIN main.voices_response.voices :
            main.voices_response.voices[i] = main.selected_voice
       /\ main.VOICE_ID # "default_voice" => main.selected_voice = main.VOICE_ID

\* the voices were fetched, the voice of VOICE_ID is none of them, and the
\* process has exited
C24_Witness ==
  /\ main.pc = "exited"
  /\ main.VOICE_ID = "v9"
  /\ main.voices_response = [ok |-> TRUE, voices |-> <<"v1", "v2">>]

\* ------------------------------------------------------------ the timestamp
\* the cycle of t did not end in a played audio: it was not started, it was
\* skipped or it failed
NotSpoken(t) ==
  /\ Admitted(t) /\ tasks[t].pc = "done"
  /\ \/ ~Has(t, "cycle")
     \/ Has(t, "skipped") \/ Has(t, "eleven_failed") \/ Has(t, "play_failed")

\* C25: last_ai_command_time is written by the admission step only, with the
\* time of the admitted message, and never written back: it stays the time of
\* the last admission when that message is below the threshold and when its
\* cycle is skipped or fails, so a message evaluated within TIMEOUT_DURATION
\* of such an admission is rejected.
C25_TimestampOnlyByAdmission ==
  /\ [][last_ai_command_time' # last_ai_command_time =>
          \E t \in Tasks :
            /\ ThrottleStep(t)
            /\ tasks'[t].trace[Len(tasks'[t].trace)] = "admitted"
            /\ last_ai_command_time' = tasks'[t].current_time]_vars
  /\ [](LET admitted == {t \in Tasks : Admitted(t)}
        IN /\ admitted = {} => last_ai_command_time = 0
           /\ \A t \in admitted :
                /\ tasks[t].current_time <= last_ai_command_time
                /\ (\A u \in admitted : u <= t) =>
                     last_ai_command_time = tasks[t].current_time)
  /\ [](\A t1, t2 \in Tasks :
          /\ t1 < t2 /\ NotSpoken(t1) /\ Evaluated(t2)
          /\ tasks[t2].current_time - tasks[t1].current_time
               <= config.TIMEOUT_DURATION
          => Rejected(t2))

\* the completion request of an admitted message failed, and a message with
\* enough bits is rejected 10 seconds after that admission
C25_Witness ==
  \E t1, t2 \in Tasks :
    /\ t1 < t2 /\ Admitted(t1) /\ Has(t1, "openai_failed")
    /\ tasks[t1].pc = "done"
    /\ Rejected(t2) /\ tasks[t2].cheered_bits >= config.BIT_THRESHOLD
    /\ tasks[t2].current_time = tasks[t1].current_time + 10
    /\ last_ai_command_time = tasks[t1].current_time

\* ------------------------------------------------------------ the cycle
\* where op stands in the trace of t, 0 if it does not
IndexOf(t, op) ==
  IF Has(t, op)
  THEN CHOOSE i \in DOMAIN tasks[t].trace : tasks[t].trace[i] = op
  ELSE 0

\* the steps of the cycle of t are done at most once and in order
InOrder(t) ==
  /\ Count(t, "openai_request") <= 1
  /\ Count(t, "eleven_request") <= 1
  /\ Count(t, "play") <= 1
  /\ Has(t, "eleven_request") =>
       /\ Has(t, "openai_reply")
       /\ IndexOf(t, "openai_request") < IndexOf(t, "openai_reply")
       /\ IndexOf(t, "openai_reply") < IndexOf(t, "eleven_request")
  /\ Has(t, "play") =>
       /\ IndexOf(t, "play") = IndexOf(t, "eleven_request") + 1
       /\ ~Has(t, "eleven_failed")
  /\ Has(t, "eleven_failed") =>
       /\ ~Has(t, "play") /\ ~Has(t, "played")
       /\ tasks[t].pc = "done"

\* C26: in a cycle exactly one request for a completion is sent, then at most
\* one request for the audio, then at most one playback; the audio is played
\* only after its request returned it, and a failed request for the audio
\* ends the cycle without playback.
C26_CycleStepsOnceInOrder ==
  \A t \in Tasks :
    Has(t, "cycle") =>
      /\ InOrder(t)
      /\ tasks[t].pc \notin {"generate_and_send_response", "create_completion"}
           => Count(t, "openai_request") = 1

\* ------------------------------------------------------------ settings
\* C27: the configuration in use has BIT_THRESHOLD >= 0 and
\* TIMEOUT_DURATION >= 0 whatever the settings are (absent, not a number,
\* negative), and it is never changed after it was loaded.
C27_SettingsNotNegative ==
  /\ [](config.BIT_THRESHOLD >= 0 /\ config.TIMEOUT_DURATION >= 0)
  /\ [][config' = config]_vars

====
